---- MODULE Spec2Model ----
(***************************************************************************)
(* Foglet (foglet-core): the facade over the Network Manager, its overlay  *)
(* registry, the shared middleware pipeline and the base overlay's         *)
(* communication channel, signaling lifecycle and connection graph.        *)
(*                                                                         *)
(* The facade is part_000; the Network Manager, the communication channel, *)
(* the middleware registry and the signaling component it delegates to are  *)
(* modelled at the interface the specification gives them.                 *)
(***************************************************************************)
EXTENDS Integers, Sequences, FiniteSets, TLC

VARIABLES
  registry,       \* Network Manager: overlay name -> overlay instance
  signaling,      \* per instance: "Detached" | "Signaling"
  neighbours,     \* per instance: the Connection Graph's known peer identifiers
  middlewares,    \* the Middleware Pipeline: sequence of [middleware, priority]
  uses,           \* every use(middleware, priority) call so far, in call order
  handlers,       \* per instance, per kind: the registered callbacks, in order
  registrations,  \* every on*(callback) call so far, in call order
  conns,          \* the connection() calls: signaling promise and facade promise
  pendingLinks,   \* per instance: connection attempts holding transport resources
  now,            \* the clock (ms) the connection timers run against
  connectEvents,  \* number of "connect" events the facade has emitted
  call,           \* the last operation or event, with its arguments
  ret,            \* what the last operation returned or threw
  sent,           \* transport sends made by the last operation
  applied,        \* middleware functions called by the last operation, in call order
  envelope,       \* the Message Envelope built from the last inbound message
  invoked,        \* handler invocations made for the last inbound message
  emitted,        \* what the last promise reaction did, in order: emit, resolve, reject
  ops             \* number of facade calls and events so far

vars == <<registry, signaling, neighbours, middlewares, uses, handlers,
          registrations, conns, pendingLinks, now, connectEvents, call, ret,
          sent, applied, envelope, invoked, emitted, ops>>

----------------------------------------------------------------------------
(* Bounds of the model                                                     *)

MaxOps == 3
MaxUse == 2
MaxIds == 3
MaxHandlers == 2
MaxConns == 2
RandomSteps == 4

(* Program constants                                                       *)

pendingTimeout == 60000

----------------------------------------------------------------------------
(* Values                                                                  *)

Undefined == "undefined"
Null == "null"
RPS == "rps"

Ret(v) == [kind |-> "return", value |-> v]
Throw(e) == [kind |-> "throw", value |-> e]
Bool(b) == IF b THEN "true" ELSE "false"

\* options.overlays: the declared overlays, in list order
OverlayConfigs == { <<"tman", "latencies">> }
\* names a caller may pass: registered ones, unregistered ones, and none
OverlayNames == {"latencies", "tman", "nope"}
NameArgs == OverlayNames \cup {Undefined}

InstanceIds == <<"overlay#1", "overlay#2">>
Instances == {RPS} \cup {InstanceIds[i] : i \in 1..Len(InstanceIds)}

PeerIds == {"a-O", "b-O", "c-I"}
Outbound == {"a-O", "b-O"}
Payloads == { <<"p">>, <<"p", "a">> }

Kinds == {"unicast", "broadcast", "streamUnicast", "streamBroadcast"}

----------------------------------------------------------------------------
(* Network Manager: construction and the overlay registry                  *)

\* new NetworkManager(options): the base overlay unconditionally, then each
\* declared overlay in list order
BuildRegistry(overlays) ==
  [n \in {overlays[i] : i \in 1..Len(overlays)} |->
     InstanceIds[CHOOSE i \in 1..Len(overlays) : overlays[i] = n]]

Built(reg) == {RPS} \cup {reg[n] : n \in DOMAIN reg}

NetworkManager_overlay(name) ==
  IF name = Undefined THEN Ret(RPS)
  ELSE IF name \in DOMAIN registry THEN Ret(registry[name])
  ELSE Throw("UnknownOverlayError")

overlay_FallsBack(name) ==
  IF name \in DOMAIN registry THEN Ret(registry[name]) ELSE Ret(RPS)

\* Foglet.overlay(name)
overlay(name) == NetworkManager_overlay(name)

----------------------------------------------------------------------------
(* Frames                                                                  *)

overlayState == <<registry, signaling, neighbours, handlers, pendingLinks>>
pipelineState == <<middlewares, uses>>
connState == <<conns, now, connectEvents>>
effects == <<sent, applied, envelope, invoked, emitted>>

NoEnvelope == [senderID |-> Null, payload |-> <<>>, kind |-> Null]

NoEffects ==
  /\ sent' = <<>> /\ applied' = <<>> /\ envelope' = NoEnvelope /\ invoked' = <<>>
  /\ emitted' = <<>>

----------------------------------------------------------------------------
Init ==
  /\ \E cfg \in OverlayConfigs : registry = BuildRegistry(cfg)
  /\ signaling = [i \in Built(registry) |-> "Detached"]
  /\ neighbours = [i \in Built(registry) |-> {}]
  /\ middlewares = <<>>
  /\ uses = <<>>
  /\ handlers = [i \in Built(registry) |-> [k \in Kinds |-> <<>>]]
  /\ registrations = <<>>
  /\ conns = <<>>
  /\ pendingLinks = [i \in Built(registry) |-> {}]
  /\ now = 0
  /\ connectEvents = 0
  /\ call = [op |-> "new"]
  /\ ret = Ret(Undefined)
  /\ sent = <<>>
  /\ applied = <<>>
  /\ envelope = NoEnvelope
  /\ invoked = <<>>
  /\ emitted = <<>>
  /\ ops = 0

----------------------------------------------------------------------------
(* Facade: overlay lookup, share, unshare                                  *)

overlayLookup(name) ==
  /\ call' = [op |-> "overlay", name |-> name]
  /\ ret' = overlay(name)
  /\ NoEffects
  /\ UNCHANGED <<overlayState, pipelineState, connState, registrations>>

\* Signaling.signaling(): attach to the rendezvous
Signaling_signaling(inst) ==
  signaling' = [signaling EXCEPT ![inst] = "Signaling"]

\* Signaling.unsignaling(): detach from the rendezvous
Signaling_unsignaling(inst) ==
  signaling' = [signaling EXCEPT ![inst] = "Detached"]

share(name) ==
  LET o == overlay(name) IN
  /\ call' = [op |-> "share", name |-> name]
  /\ IF o.kind = "throw"
       THEN ret' = o /\ UNCHANGED signaling
       ELSE ret' = Ret(Undefined) /\ Signaling_signaling(o.value)
  /\ NoEffects
  /\ UNCHANGED <<registry, neighbours, handlers, pendingLinks, pipelineState,
                 connState, registrations>>

unshare_Unregisters(name) ==
  LET o == overlay(name) IN
  /\ call' = [op |-> "unshare", name |-> name]
  /\ IF o.kind = "throw"
       THEN ret' = o /\ UNCHANGED <<signaling, registry>>
       ELSE /\ ret' = Ret(Undefined)
            /\ Signaling_unsignaling(o.value)
            /\ registry' = [n \in DOMAIN registry \ {name} |-> registry[n]]
  /\ NoEffects
  /\ UNCHANGED <<neighbours, handlers, pendingLinks, pipelineState,
                 connState, registrations>>

unshare(name) ==
  LET o == overlay(name) IN
  /\ call' = [op |-> "unshare", name |-> name]
  /\ IF o.kind = "throw"
       THEN ret' = o /\ UNCHANGED signaling
       ELSE ret' = Ret(Undefined) /\ Signaling_unsignaling(o.value)
  /\ NoEffects
  /\ UNCHANGED <<registry, neighbours, handlers, pendingLinks, pipelineState,
                 connState, registrations>>

----------------------------------------------------------------------------
(* RPS / transport collaborator: the only writer of the Connection Graph   *)

PeerJoin(inst, p) ==
  /\ inst \in DOMAIN neighbours
  /\ p \notin neighbours[inst]
  /\ neighbours' = [neighbours EXCEPT ![inst] = @ \cup {p}]
  /\ call' = [op |-> "peerJoin", inst |-> inst, id |-> p]
  /\ ret' = Ret(Undefined)
  /\ NoEffects
  /\ UNCHANGED <<registry, signaling, handlers, pendingLinks, pipelineState,
                 connState, registrations>>

PeerLeave(inst, p) ==
  /\ inst \in DOMAIN neighbours
  /\ p \in neighbours[inst]
  /\ neighbours' = [neighbours EXCEPT ![inst] = @ \ {p}]
  /\ call' = [op |-> "peerLeave", inst |-> inst, id |-> p]
  /\ ret' = Ret(Undefined)
  /\ NoEffects
  /\ UNCHANGED <<registry, signaling, handlers, pendingLinks, pipelineState,
                 connState, registrations>>

----------------------------------------------------------------------------
(* Middleware: the {in, out} pairs an application passes to use()          *)

\* "A" and "B" append / strip their own suffix; "T" throws on every call
Middlewares == {"A", "B", "T"}
Suffix(m) == IF m = "A" THEN "a" ELSE "b"

Ok(v) == [ok |-> TRUE, value |-> v]
Thrown == [ok |-> FALSE, value |-> <<>>]

Middleware_out(m, msg) ==
  IF m = "T" THEN Thrown ELSE Ok(Append(msg, Suffix(m)))

Middleware_in(m, msg) ==
  IF m = "T" THEN Thrown
  ELSE IF Len(msg) > 0 /\ msg[Len(msg)] = Suffix(m)
         THEN Ok(SubSeq(msg, 1, Len(msg) - 1))
         ELSE Ok(msg)

\* an optional argument: <<>> when absent, <<v>> when given
Absent == <<>>
Given(v) == <<v>>
PriorityArgs == {Absent, Given(-1), Given(1)}

----------------------------------------------------------------------------
(* Middleware Pipeline                                                     *)

RECURSIVE UpperIndex(_, _)
\* the position after every entry of priority <= p
UpperIndex(list, p) ==
  IF list = <<>> \/ Head(list).priority > p THEN 1
  ELSE 1 + UpperIndex(Tail(list), p)

InsertAt(list, i, e) ==
  SubSeq(list, 1, i - 1) \o <<e>> \o SubSeq(list, i, Len(list))

\* NetworkManager.registerMiddleware(middleware, priority)
registerMiddleware(m, priority) ==
  middlewares' = InsertAt(middlewares, UpperIndex(middlewares, priority),
                          [middleware |-> m, priority |-> priority])

RECURSIVE PassAborting(_, _, _)
PassAborting(list, dir, msg) ==
  IF list = <<>> THEN [value |-> msg, trace |-> <<>>]
  ELSE LET m == Head(list).middleware
           r == IF dir = "out" THEN Middleware_out(m, msg)
                               ELSE Middleware_in(m, msg)
       IN IF r.ok
            THEN LET rest == PassAborting(Tail(list), dir, r.value)
                 IN [value |-> rest.value,
                     trace |-> <<[middleware |-> m, fn |-> dir]>> \o rest.trace]
            ELSE [value |-> msg, trace |-> <<[middleware |-> m, fn |-> dir]>>]

\* one pass over `list` in list order, calling fn(entry, dir) on the payload:
\* an entry that throws is skipped and the next entry gets the same payload
RECURSIVE Pass(_, _, _)
Pass(list, dir, msg) ==
  IF list = <<>> THEN [value |-> msg, trace |-> <<>>]
  ELSE LET m == Head(list).middleware
           r == IF dir = "out" THEN Middleware_out(m, msg)
                               ELSE Middleware_in(m, msg)
           rest == Pass(Tail(list), dir, IF r.ok THEN r.value ELSE msg)
       IN [value |-> rest.value, trace |-> <<[middleware |-> m, fn |-> dir]>> \o rest.trace]

Reverse(list) == [i \in 1..Len(list) |-> list[Len(list) + 1 - i]]

\* outbound: ascending priority
Pipeline_out(msg) == Pass(middlewares, "out", msg)

Pipeline_in_SameOrder(msg) == Pass(middlewares, "in", msg)

\* inbound: the exact reverse of outbound
Pipeline_in(msg) == Pass(Reverse(middlewares), "in", msg)

use_DropsPriority(m, p) ==
  /\ call' = [op |-> "use", middleware |-> m, priority |-> p]
  /\ registerMiddleware(m, 0)
  /\ uses' = Append(uses, [middleware |-> m, priority |-> p])
  /\ ret' = Ret(Undefined)
  /\ NoEffects
  /\ UNCHANGED <<overlayState, connState, registrations>>

\* Foglet.use(middleware, priority = 0)
use(m, p) ==
  /\ call' = [op |-> "use", middleware |-> m, priority |-> p]
  /\ registerMiddleware(m, IF p = Absent THEN 0 ELSE p[1])
  /\ uses' = Append(uses, [middleware |-> m, priority |-> p])
  /\ ret' = Ret(Undefined)
  /\ NoEffects
  /\ UNCHANGED <<overlayState, connState, registrations>>

----------------------------------------------------------------------------
(* Communication Channel of one overlay instance: outbound                 *)

Base_Latencies == overlay("latencies").value

\* this.overlay(): the overlay every messaging operation acts on
Base == overlay(Undefined).value

RECURSIVE Dedup(_)
\* the ids without their repetitions, first occurrences kept in order
Dedup(ids) ==
  IF ids = <<>> THEN <<>>
  ELSE <<Head(ids)>> \o Dedup(SelectSeq(Tail(ids), LAMBDA x : x # Head(ids)))

RECURSIVE SetToSeq(_)
SetToSeq(S) ==
  IF S = {} THEN <<>>
  ELSE LET x == CHOOSE y \in S : TRUE IN <<x>> \o SetToSeq(S \ {x})

\* Communication.sendUnicast(id, message)
Communication_sendUnicast(inst, id, msg) ==
  IF id \in neighbours[inst]
    THEN LET o == Pipeline_out(msg)
         IN [sent |-> <<[to |-> id, payload |-> o.value]>>,
             applied |-> o.trace, result |-> TRUE]
    ELSE [sent |-> <<>>, applied |-> <<>>, result |-> FALSE]

RECURSIVE EachUnicast(_, _, _)
EachUnicast(inst, ids, msg) ==
  IF ids = <<>> THEN [sent |-> <<>>, applied |-> <<>>, result |-> FALSE]
  ELSE LET one == Communication_sendUnicast(inst, Head(ids), msg)
           rest == EachUnicast(inst, Tail(ids), msg)
       IN [sent |-> one.sent \o rest.sent,
           applied |-> one.applied \o rest.applied,
           result |-> one.result \/ rest.result]

\* Communication.sendMulticast(ids, message): sendUnicast for each distinct id
Communication_sendMulticast(inst, ids, msg) ==
  EachUnicast(inst, Dedup(ids), msg)

\* Communication.sendBroadcast(message): the pipeline once, then every
\* neighbour reachable by an outbound arc
Communication_sendBroadcast(inst, msg) ==
  LET o == Pipeline_out(msg)
      targets == SetToSeq(neighbours[inst] \cap Outbound)
  IN [sent |-> [i \in 1..Len(targets) |-> [to |-> targets[i], payload |-> o.value]],
      applied |-> o.trace,
      result |-> neighbours[inst] # {}]

Outcome(op, r) ==
  /\ call' = op
  /\ ret' = Ret(Bool(r.result))
  /\ sent' = r.sent
  /\ applied' = r.applied
  /\ envelope' = NoEnvelope
  /\ invoked' = <<>>
  /\ emitted' = <<>>
  /\ UNCHANGED <<overlayState, pipelineState, connState, registrations>>

sendUnicast_ViaBroadcast(id, message) ==
  Outcome([op |-> "sendUnicast", id |-> id, message |-> message],
          Communication_sendBroadcast(Base, message))

\* Foglet.sendUnicast(id, message)
sendUnicast(id, message) ==
  Outcome([op |-> "sendUnicast", id |-> id, message |-> message],
          Communication_sendUnicast(Base, id, message))

sendMulticast_ViaBroadcast(ids, message) ==
  Outcome([op |-> "sendMulticast", ids |-> ids, message |-> message],
          Communication_sendBroadcast(Base, message))

\* Foglet.sendMulticast(ids = [], message)
sendMulticast(ids, message) ==
  Outcome([op |-> "sendMulticast", ids |-> ids, message |-> message],
          Communication_sendMulticast(Base,
             IF ids = Absent THEN <<>> ELSE ids[1], message))

\* Foglet.sendBroadcast(message)
sendBroadcast(message) ==
  Outcome([op |-> "sendBroadcast", message |-> message],
          Communication_sendBroadcast(Base, message))

\* Foglet.streamUnicast(id): the handle of a stream to one peer
streamUnicast(id) ==
  /\ call' = [op |-> "streamUnicast", id |-> id]
  /\ ret' = Ret("StreamRequest")
  /\ NoEffects
  /\ UNCHANGED <<overlayState, pipelineState, connState, registrations>>

\* Foglet.streamBroadcast(isReady): the handle of a stream to all peers
streamBroadcast(isReady) ==
  /\ call' = [op |-> "streamBroadcast", isReady |-> isReady]
  /\ ret' = Ret("StreamRequest")
  /\ NoEffects
  /\ UNCHANGED <<overlayState, pipelineState, connState, registrations>>

----------------------------------------------------------------------------
(* Communication Channel: handlers and inbound messages                    *)

\* the callbacks an application registers; "boom" throws on every call
Callbacks == {"f", "g", "boom"}
CallbackThrows(cb) == cb = "boom"

Invocation(cb, env) ==
  [callback |-> cb, senderID |-> env.senderID, payload |-> env.payload]

RECURSIVE Deliver(_, _)
\* every handler of the kind, in registration order; what a handler throws is
\* caught and logged for that invocation
Deliver(hs, env) ==
  IF hs = <<>> THEN [invoked |-> <<>>, raised |-> FALSE]
  ELSE LET rest == Deliver(Tail(hs), env)
       IN [invoked |-> <<Invocation(Head(hs), env)>> \o rest.invoked,
           raised |-> rest.raised]

\* the transport hands the channel of `inst` a message of `kind` from `sender`
Receive(inst, kind, sender, wire) ==
  LET i == Pipeline_in(wire)
      env == [senderID |-> sender, payload |-> i.value, kind |-> kind]
      d == Deliver(handlers[inst][kind], env)
  IN /\ inst \in DOMAIN handlers
     /\ call' = [op |-> "receive", inst |-> inst, kind |-> kind,
                 senderID |-> sender, wire |-> wire]
     /\ applied' = i.trace
     /\ envelope' = env
     /\ invoked' = d.invoked
     /\ ret' = IF d.raised THEN Throw("HandlerError") ELSE Ret(Undefined)
     /\ sent' = <<>>
     /\ emitted' = <<>>
     /\ UNCHANGED <<overlayState, pipelineState, connState, registrations>>

\* Communication.onUnicast / onBroadcast / onStreamUnicast / onStreamBroadcast
Communication_on(inst, kind, cb) ==
  handlers' = [handlers EXCEPT ![inst][kind] = Append(@, cb)]

Register(name, kind, cb) ==
  /\ call' = [op |-> name, callback |-> cb]
  /\ Communication_on(Base, kind, cb)
  /\ registrations' = Append(registrations, [on |-> name, callback |-> cb])
  /\ ret' = Ret(Undefined)
  /\ NoEffects
  /\ UNCHANGED <<registry, signaling, neighbours, pendingLinks, pipelineState,
                 connState>>

onUnicast_AsBroadcast(cb) == Register("onUnicast", "broadcast", cb)

\* Foglet.onUnicast(callback)
onUnicast(cb) == Register("onUnicast", "unicast", cb)

\* Foglet.onBroadcast(callback)
onBroadcast(cb) == Register("onBroadcast", "broadcast", cb)

\* Foglet.onStreamUnicast(callback)
onStreamUnicast(cb) == Register("onStreamUnicast", "streamUnicast", cb)

\* Foglet.onStreamBroadcast(callback)
onStreamBroadcast(cb) == Register("onStreamBroadcast", "streamBroadcast", cb)

----------------------------------------------------------------------------
(* Connection Graph queries                                                *)

Orderings(S) ==
  {s \in [1..Cardinality(S) -> S] : \A i, j \in DOMAIN s : i # j => s[i] # s[j]}

\* the peer identifier without its direction suffix
StripSuffix(id) ==
  CASE id = "a-O" -> "a" [] id = "b-O" -> "b" [] id = "c-I" -> "c" [] OTHER -> id

TransformArgs == {Absent, Given(TRUE), Given(FALSE)}

\* Network.getReachableNeighbours(transform): the identifiers reachable by an
\* outbound arc, their suffix removed when `transform`
Network_getReachableNeighbours(inst, transform) ==
  LET out == neighbours[inst] \cap Outbound
  IN IF transform THEN {StripSuffix(x) : x \in out} ELSE out

LimitArgs == {Absent, Given(1), Given(2)}

\* Network.getNeighbours(limit): up to `limit` of the known identifiers, all of
\* them when no limit is given, in an order the caller cannot choose
Network_getNeighbours(inst, limit) ==
  {s \in UNION {Orderings(T) : T \in SUBSET neighbours[inst]} :
     Len(s) = IF limit = Absent \/ limit[1] >= Cardinality(neighbours[inst])
                THEN Cardinality(neighbours[inst]) ELSE limit[1]}

\* Network.getArcs(): every known identifier, suffixed
Network_getArcs(inst) == neighbours[inst]

Query(op, o, result) ==
  /\ call' = op
  /\ ret' = IF o.kind = "throw" THEN o ELSE Ret(result)
  /\ NoEffects
  /\ UNCHANGED <<overlayState, pipelineState, connState, registrations>>

\* Foglet.getNeighbours(limit, overlayName)
getNeighbours(limit, name) ==
  LET o == overlay(name) IN
  \E s \in IF o.kind = "throw" THEN {<<>>} ELSE Network_getNeighbours(o.value, limit) :
    Query([op |-> "getNeighbours", limit |-> limit, name |-> name], o, s)

\* Foglet.getArcs(overlayName)
getArcs(name) ==
  LET o == overlay(name) IN
  Query([op |-> "getArcs", name |-> name], o,
        IF o.kind = "throw" THEN {} ELSE Network_getArcs(o.value))

\* Foglet.getReachableNeighbours(transform = true, overlayName)
getReachableNeighbours(transform, name) ==
  LET o == overlay(name) IN
  Query([op |-> "getReachableNeighbours", transform |-> transform, name |-> name], o,
        IF o.kind = "throw" THEN {}
        ELSE Network_getReachableNeighbours(o.value,
               IF transform = Absent THEN TRUE ELSE transform[1]))

\* Math.floor(Math.random() * length), Math.random() being k / RandomSteps
RandomIndex_Round(k, length) == (2 * k * length + RandomSteps) \div (2 * RandomSteps)

RandomIndex(k, length) == (k * length) \div RandomSteps

\* peers[i] of a JavaScript array: undefined outside it
At(peers, i) == IF i + 1 \in DOMAIN peers THEN peers[i + 1] ELSE Undefined

\* Foglet.getRandomNeighbourId()
getRandomNeighbourId ==
  \E peers \in Network_getNeighbours(Base, Absent), k \in 0..(RandomSteps - 1) :
    /\ call' = [op |-> "getRandomNeighbourId", peers |-> peers]
    /\ ret' = IF Len(peers) = 0 THEN Ret(Null)
              ELSE Ret(At(peers, RandomIndex(k, Len(peers))))
    /\ NoEffects
    /\ UNCHANGED <<overlayState, pipelineState, connState, registrations>>

----------------------------------------------------------------------------
(* Signaling Lifecycle: connection(), its timer and the facade's promise   *)

\* the other facades a caller may pass: their peer and their registered names
Remote == [peer |-> "b-O", overlays |-> {"latencies"}]
RemoteFoglets == { Remote, [peer |-> "c-I", overlays |-> {}] }
FogletArgs == {Absent} \cup {Given(f) : f \in RemoteFoglets}
TimeoutArgs == {Absent, Given(100)}

\* foglet.overlay(name) on the other facade
RemoteOverlay(f, name) ==
  IF name = Undefined \/ name \in f.overlays THEN Ret(name)
  ELSE Throw("UnknownOverlayError")

Settled(c) == c.promise # "pending"

LookupFailure_LocalOnly(local, foglet, name) ==
  IF local.kind = "throw" THEN local ELSE Ret(Undefined)

\* the promise executor: an exception thrown inside it rejects the promise
LookupFailure(local, foglet, name) ==
  IF local.kind = "throw" THEN local
  ELSE IF foglet # Absent /\ RemoteOverlay(foglet[1], name).kind = "throw"
         THEN RemoteOverlay(foglet[1], name)
         ELSE Ret(Undefined)

\* timeout = this.options.rps.options.pendingTimeout
DefaultTimeout(timeout) == IF timeout = Absent THEN pendingTimeout ELSE timeout[1]

\* Signaling.connection(network | null, timeout): a Pending attempt that holds
\* a transport resource until it is Connected, fails or times out
Signaling_connection(inst, foglet, ms) ==
  [inst |-> inst,
   target |-> IF foglet = Absent THEN Null ELSE foglet[1].peer,
   start |-> now,
   deadline |-> now + ms,
   sig |-> "pending", sigValue |-> Undefined,
   promise |-> "pending", value |-> Undefined]

\* Foglet.connection(foglet, name, timeout)
connection(foglet, name, timeout) ==
  LET local == overlay(name)
      failure == LookupFailure(local, foglet, name)
      id == Len(conns) + 1
  IN /\ Len(conns) < MaxConns
     /\ call' = [op |-> "connection", foglet |-> foglet, name |-> name,
                 timeout |-> timeout, id |-> id]
     /\ ret' = Ret("Promise")
     /\ IF failure.kind = "throw"
          THEN /\ conns' = Append(conns,
                    [inst |-> Null, target |-> Null, start |-> now, deadline |-> now,
                     sig |-> "none", sigValue |-> Undefined,
                     promise |-> "rejected", value |-> failure.value])
               /\ UNCHANGED pendingLinks
          ELSE /\ conns' = Append(conns,
                    Signaling_connection(local.value, foglet, DefaultTimeout(timeout)))
               /\ pendingLinks' = [pendingLinks EXCEPT ![local.value] = @ \cup {id}]
     /\ NoEffects
     /\ UNCHANGED <<registry, signaling, neighbours, handlers, pipelineState,
                    now, connectEvents, registrations>>

TimerRunning(c) == c.sig = "pending"

\* time passes until the next timer is due
Tick ==
  LET due == {conns[i].deadline : i \in {j \in DOMAIN conns :
                 TimerRunning(conns[j]) /\ conns[j].deadline > now}}
  IN /\ due # {}
     /\ now' = CHOOSE d \in due : \A e \in due : d <= e
     /\ call' = [op |-> "tick"]
     /\ ret' = Ret(Undefined)
     /\ NoEffects
     /\ UNCHANGED <<overlayState, pipelineState, conns, connectEvents, registrations>>

\* the handshake ends before the timer: the pair is Connected (or refused)
SignalingConnected(i, p, connected) ==
  /\ i \in DOMAIN conns
  /\ conns[i].sig = "pending"
  /\ now < conns[i].deadline
  /\ conns[i].target \in {Null, p}
  /\ conns' = [conns EXCEPT ![i].sig = "fulfilled", ![i].sigValue = Bool(connected)]
  /\ pendingLinks' = [pendingLinks EXCEPT ![conns[i].inst] = @ \ {i}]
  /\ neighbours' = IF connected
                     THEN [neighbours EXCEPT ![conns[i].inst] = @ \cup {p}]
                     ELSE neighbours
  /\ call' = [op |-> "connected", id |-> i]
  /\ ret' = Ret(Undefined)
  /\ NoEffects
  /\ UNCHANGED <<registry, signaling, handlers, pipelineState, now,
                 connectEvents, registrations>>

\* the signaling collaborator gives up, before the timer, for a reason of
\* its own
SignalingFailed(i) ==
  /\ i \in DOMAIN conns
  /\ conns[i].sig = "pending"
  /\ now < conns[i].deadline
  /\ conns' = [conns EXCEPT ![i].sig = "rejected", ![i].sigValue = "SignalingError"]
  /\ pendingLinks' = [pendingLinks EXCEPT ![conns[i].inst] = @ \ {i}]
  /\ call' = [op |-> "signalingFailed", id |-> i]
  /\ ret' = Ret(Undefined)
  /\ NoEffects
  /\ UNCHANGED <<registry, signaling, neighbours, handlers, pipelineState, now,
                 connectEvents, registrations>>

\* the timer is due and the pair is not Connected: ConnectionTimeoutError,
\* and the pending transport resource is released
SignalingTimeout(i) ==
  /\ i \in DOMAIN conns
  /\ TimerRunning(conns[i])
  /\ now >= conns[i].deadline
  /\ conns' = [conns EXCEPT ![i].sig = "rejected",
                            ![i].sigValue = "ConnectionTimeoutError"]
  /\ pendingLinks' = [pendingLinks EXCEPT ![conns[i].inst] = @ \ {i}]
  /\ call' = [op |-> "timeout", id |-> i]
  /\ ret' = Ret(Undefined)
  /\ NoEffects
  /\ UNCHANGED <<registry, signaling, neighbours, handlers, pipelineState, now,
                 connectEvents, registrations>>

ThenCallback_EmitsIfConnected(i) ==
  /\ i \in DOMAIN conns
  /\ conns[i].sig = "fulfilled"
  /\ conns[i].promise = "pending"
  /\ connectEvents' = IF conns[i].sigValue = "true" THEN connectEvents + 1
                      ELSE connectEvents
  /\ conns' = [conns EXCEPT ![i].promise = "resolved", ![i].value = conns[i].sigValue]
  /\ call' = [op |-> "then", id |-> i]
  /\ ret' = Ret(Undefined)
  /\ sent' = <<>> /\ applied' = <<>> /\ envelope' = NoEnvelope /\ invoked' = <<>>
  /\ emitted' = IF conns[i].sigValue = "true" THEN <<"connect", "resolve">>
                ELSE <<"resolve">>
  /\ UNCHANGED <<overlayState, pipelineState, now, registrations>>

\* .then((result) => { this.emit("connect"); resolve(result.connected); })
ThenCallback(i) ==
  /\ i \in DOMAIN conns
  /\ conns[i].sig = "fulfilled"
  /\ conns[i].promise = "pending"
  /\ connectEvents' = connectEvents + 1
  /\ conns' = [conns EXCEPT ![i].promise = "resolved", ![i].value = conns[i].sigValue]
  /\ call' = [op |-> "then", id |-> i]
  /\ ret' = Ret(Undefined)
  /\ sent' = <<>> /\ applied' = <<>> /\ envelope' = NoEnvelope /\ invoked' = <<>>
  /\ emitted' = <<"connect", "resolve">>
  /\ UNCHANGED <<overlayState, pipelineState, now, registrations>>

CatchCallback_Swallows(i) ==
  /\ i \in DOMAIN conns
  /\ conns[i].sig = "rejected"
  /\ conns[i].promise = "pending"
  /\ conns' = [conns EXCEPT ![i].sig = "handled"]
  /\ call' = [op |-> "catch", id |-> i]
  /\ ret' = Ret(Undefined)
  /\ NoEffects
  /\ UNCHANGED <<overlayState, pipelineState, now, connectEvents, registrations>>

\* .catch((e) => { reject(e); })
CatchCallback(i) ==
  /\ i \in DOMAIN conns
  /\ conns[i].sig = "rejected"
  /\ conns[i].promise = "pending"
  /\ conns' = [conns EXCEPT ![i].promise = "rejected", ![i].value = conns[i].sigValue]
  /\ call' = [op |-> "catch", id |-> i]
  /\ ret' = Ret(Undefined)
  /\ sent' = <<>> /\ applied' = <<>> /\ envelope' = NoEnvelope /\ invoked' = <<>>
  /\ emitted' = <<"reject">>
  /\ UNCHANGED <<overlayState, pipelineState, now, connectEvents, registrations>>

----------------------------------------------------------------------------
(* Inputs                                                                  *)

RECURSIVE SeqsUpTo(_, _)
SeqsUpTo(S, n) ==
  IF n = 0 THEN {<<>>}
  ELSE LET shorter == SeqsUpTo(S, n - 1)
       IN shorter \cup {Append(q, x) : q \in shorter, x \in S}

IdsArgs == {Absent} \cup {Given(q) : q \in SeqsUpTo(PeerIds, MaxIds)}
FewIdsArgs == {Absent, Given(<<"a-O", "c-I", "a-O">>)}

\* what a peer may put on the wire: a payload of its own, or what it was sent
Wires == Payloads \cup {sent[i].payload : i \in DOMAIN sent}

Registered == Len(registrations)

----------------------------------------------------------------------------
(* The facade with every operation, for a bounded number of calls          *)

Step ==
  \/ \E n \in NameArgs : overlayLookup(n)
  \/ \E n \in NameArgs : share(n)
  \/ \E n \in NameArgs : unshare(n)
  \/ \E f \in {Absent, Given(Remote)}, n \in NameArgs : connection(f, n, Given(100))
  \/ Len(uses) < MaxUse /\ use("A", Absent)
  \/ Registered < MaxHandlers /\ onUnicast("f")
  \/ Registered < MaxHandlers /\ onBroadcast("f")
  \/ Registered < MaxHandlers /\ onStreamUnicast("f")
  \/ Registered < MaxHandlers /\ onStreamBroadcast("f")
  \/ \E id \in {"a-O", "c-I"} : sendUnicast(id, <<"p">>)
  \/ \E ids \in FewIdsArgs : sendMulticast(ids, <<"p">>)
  \/ sendBroadcast(<<"p">>)
  \/ streamUnicast("a-O")
  \/ streamBroadcast(Undefined)
  \/ \E n \in NameArgs : getNeighbours(Absent, n)
  \/ \E n \in NameArgs : getReachableNeighbours(Absent, n)
  \/ \E n \in NameArgs : getArcs(n)
  \/ getRandomNeighbourId
  \/ \E i \in DOMAIN handlers, k \in {"unicast", "streamBroadcast"} :
        Receive(i, k, "a-O", <<"p">>)
  \/ \E i \in Instances : PeerJoin(i, "a-O")
  \/ \E i \in Instances : PeerLeave(i, "a-O")
  \/ Tick
  \/ \E i \in 1..MaxConns, c \in BOOLEAN : SignalingConnected(i, "b-O", c)
  \/ \E i \in 1..MaxConns : SignalingFailed(i)
  \/ \E i \in 1..MaxConns : SignalingTimeout(i)
  \/ \E i \in 1..MaxConns : ThenCallback(i)
  \/ \E i \in 1..MaxConns : CatchCallback(i)

Next == ops < MaxOps /\ ops' = ops + 1 /\ Step

Spec == Init /\ [][Next]_vars

----------------------------------------------------------------------------
(* The middleware pipeline and the base overlay's channel                  *)

NextPipeline ==
  /\ UNCHANGED ops
  /\ \/ \E m \in Middlewares, p \in PriorityArgs : Len(uses) < MaxUse /\ use(m, p)
     \/ \E id \in Outbound, msg \in Payloads : sendUnicast(id, msg)
     \/ \E msg \in Payloads : sendBroadcast(msg)
     \/ \E k \in {"unicast", "broadcast"}, w \in Wires : Receive(RPS, k, "a-O", w)
     \/ Registered < MaxHandlers /\ onBroadcast("f")
     \/ \E p \in Outbound : PeerJoin(RPS, p)
     \/ \E p \in Outbound : PeerLeave(RPS, p)

SpecPipeline == Init /\ [][NextPipeline]_vars

----------------------------------------------------------------------------
(* Sending over a changing Connection Graph                                *)

NextSend ==
  /\ UNCHANGED ops
  /\ \/ \E m \in {"A", "T"} : Len(uses) < MaxUse /\ use(m, Absent)
     \/ \E id \in PeerIds, msg \in Payloads : sendUnicast(id, msg)
     \/ \E ids \in IdsArgs : sendMulticast(ids, <<"p">>)
     \/ sendBroadcast(<<"p">>)
     \/ getRandomNeighbourId
     \/ \E p \in PeerIds : PeerJoin(RPS, p)
     \/ \E p \in PeerIds : PeerLeave(RPS, p)

SpecSend == Init /\ [][NextSend]_vars

----------------------------------------------------------------------------
(* Handlers and inbound messages                                           *)

NextReceive ==
  /\ UNCHANGED ops
  /\ \/ \E cb \in Callbacks : Registered < MaxHandlers /\ onUnicast(cb)
     \/ \E cb \in Callbacks : Registered < MaxHandlers /\ onBroadcast(cb)
     \/ \E cb \in Callbacks : Registered < MaxHandlers /\ onStreamUnicast(cb)
     \/ \E cb \in Callbacks : Registered < MaxHandlers /\ onStreamBroadcast(cb)
     \/ Len(uses) < MaxUse /\ use("A", Absent)
     \/ \E k \in Kinds, p \in {"a-O", "c-I"}, w \in Payloads : Receive(RPS, k, p, w)

SpecReceive == Init /\ [][NextReceive]_vars

----------------------------------------------------------------------------
(* Connections, their timers and promises, under the event loop's fairness *)

NextConnection ==
  /\ UNCHANGED ops
  /\ \/ \E t \in TimeoutArgs : connection(Given(Remote), Undefined, t)
     \/ connection(Absent, Undefined, Given(100))
     \/ connection(Given(Remote), "nope", Absent)
     \/ Tick
     \/ \E i \in 1..MaxConns, c \in BOOLEAN : SignalingConnected(i, "b-O", c)
     \/ \E i \in 1..MaxConns : SignalingFailed(i)
     \/ \E i \in 1..MaxConns : SignalingTimeout(i)
     \/ \E i \in 1..MaxConns : ThenCallback(i)
     \/ \E i \in 1..MaxConns : CatchCallback(i)

\* timers fire and promise reactions run: the event loop starves neither
Fairness ==
  /\ WF_vars(UNCHANGED ops /\ Tick)
  /\ \A i \in 1..MaxConns : WF_vars(UNCHANGED ops /\ SignalingTimeout(i))
  /\ \A i \in 1..MaxConns : WF_vars(UNCHANGED ops /\ ThenCallback(i))
  /\ \A i \in 1..MaxConns : WF_vars(UNCHANGED ops /\ CatchCallback(i))

FairSpec == Init /\ [][NextConnection]_vars /\ Fairness

----------------------------------------------------------------------------
(* connection() on every overlay and towards every facade                  *)

NextConnect ==
  /\ UNCHANGED ops
  /\ \/ \E f \in FogletArgs, n \in NameArgs : connection(f, n, Given(100))
     \/ share("tman")
     \/ \E i \in 1..MaxConns : SignalingConnected(i, "b-O", TRUE)
     \/ \E i \in 1..MaxConns : ThenCallback(i)

SpecConnect == Init /\ [][NextConnect]_vars

----------------------------------------------------------------------------
(* Claims                                                                  *)

Lookup(name) ==
  IF name = Undefined THEN "base"
  ELSE IF name \in DOMAIN registry THEN "registered" ELSE "unknown"

\* C1: overlay(name) returns the base RPS instance when name is undefined, the
\* instance registered under exactly that name when there is one, and fails
\* with UnknownOverlayError otherwise: a lookup of an unregistered name never
\* returns the base overlay or any other instance, and it leaves the registry
\* as it was.
C1_OverlayLookup ==
  [][call'.op = "overlay" =>
       /\ Lookup(call'.name) = "base" => ret' = Ret(RPS)
       /\ Lookup(call'.name) = "registered" =>
            /\ ret' = Ret(registry[call'.name])
            /\ ret'.value # RPS
            /\ \A other \in DOMAIN registry \ {call'.name} :
                 ret'.value # registry[other]
       /\ Lookup(call'.name) = "unknown" =>
            /\ ret' = Throw("UnknownOverlayError")
            /\ ret'.value \notin Built(registry)
       /\ registry' = registry]_vars

C1_Witness ==
  /\ call.op = "overlay"
  /\ call.name = "nope"
  /\ ret = Throw("UnknownOverlayError")
  /\ DOMAIN registry = {"tman", "latencies"}

\* C2: identity stability: whatever facade operation or event happens, a
\* lookup of any name (the base overlay included) gives after it what it gave
\* before it, and no registry entry is removed or replaced.
C2_IdentityStable ==
  [][/\ \A n \in NameArgs : overlay(n)' = overlay(n)
     /\ registry' = registry]_vars

C2_Witness ==
  /\ ops >= 3
  /\ call.op = "overlay"
  /\ call.name = "latencies"
  /\ ret = Ret("overlay#2")
  /\ signaling["overlay#2"] = "Signaling"
  /\ neighbours[RPS] # {}

EffectivePriority(u) == IF u.priority = Absent THEN 0 ELSE u.priority[1]

\* where the k-th use() call belongs: after every call of lower priority and
\* after the earlier calls of the same priority
Rank(k) ==
  1 + Cardinality({j \in DOMAIN uses :
        \/ EffectivePriority(uses[j]) < EffectivePriority(uses[k])
        \/ EffectivePriority(uses[j]) = EffectivePriority(uses[k]) /\ j < k})

InOrderOfUse ==
  /\ Len(middlewares) = Len(uses)
  /\ \A k \in DOMAIN uses :
       middlewares[Rank(k)] = [middleware |-> uses[k].middleware,
                               priority |-> EffectivePriority(uses[k])]

Calls(fn, list) == [i \in DOMAIN list |-> [middleware |-> list[i].middleware, fn |-> fn]]

OnePassOut ==
  \/ call.op = "sendBroadcast"
  \/ call.op = "sendUnicast" /\ sent # <<>>

\* C3: after any sequence of use(middleware, priority) calls, priority being 0
\* when left out, the pipeline is in ascending priority with equal priorities
\* in the order of their registration; an outbound message gets the `out`
\* functions in that order and an inbound one the `in` functions in exactly
\* the reverse order.
C3_PipelineOrder ==
  /\ InOrderOfUse
  /\ \A i, j \in DOMAIN middlewares :
       i < j => middlewares[i].priority <= middlewares[j].priority
  /\ OnePassOut => applied = Calls("out", middlewares)
  /\ call.op = "receive" => applied = Calls("in", Reverse(middlewares))

C3_Witness ==
  /\ Len(uses) = 2
  /\ uses[1].middleware # uses[2].middleware
  /\ uses[1].priority = Given(1) /\ uses[2].priority = Absent
  /\ middlewares[1].middleware = uses[2].middleware
  /\ call.op = "receive"
  /\ applied = <<[middleware |-> uses[1].middleware, fn |-> "in"],
                 [middleware |-> uses[2].middleware, fn |-> "in"]>>

TestMessages == SeqsUpTo({"p", "a", "b"}, 2)

\* `in` undoes `out`
TrueInverse(m) ==
  \A msg \in TestMessages :
    /\ Middleware_out(m, msg).ok
    /\ Middleware_in(m, Middleware_out(m, msg).value) = Ok(msg)

AllTrueInverses == \A i \in DOMAIN middlewares : TrueInverse(middlewares[i].middleware)

\* C4: round trip: when every registered middleware's `in` is the inverse of
\* its `out`, a payload P that was sent (all `out` in ascending priority) and
\* comes back in as it went out (all `in` in descending priority) is handed
\* over equal to P.
C4_RoundTrip ==
  [][(/\ call.op \in {"sendUnicast", "sendBroadcast"}
      /\ sent # <<>>
      /\ call'.op = "receive"
      /\ call'.wire = sent[1].payload
      /\ AllTrueInverses)
     => envelope'.payload = call.message]_vars

C4_Witness ==
  /\ call.op = "receive"
  /\ Len(middlewares) = 2
  /\ middlewares[1].middleware = "B" /\ middlewares[2].middleware = "A"
  /\ middlewares[1].priority = middlewares[2].priority
  /\ call.wire = <<"p", "a", "b", "a">>
  /\ envelope.payload = <<"p", "a">>

Healthy(fn, list) ==
  SelectSeq(list, LAMBDA e :
    IF fn = "out" THEN Middleware_out(e.middleware, <<>>).ok
                  ELSE Middleware_in(e.middleware, <<>>).ok)

SendsTo(targets, payload) ==
  /\ {sent[i].to : i \in DOMAIN sent} = targets
  /\ Len(sent) = Cardinality(targets)
  /\ \A i \in DOMAIN sent : sent[i].payload = payload

\* C5: a pipeline entry whose `out` or `in` throws is skipped and nothing
\* else: the message gets what the pipeline without that entry would give it,
\* every entry is still called in order, nothing is raised to the sender or
\* to the transport, an outbound message is still sent and an inbound one
\* still handed to the local handlers, in every state, so also after an
\* earlier fault.
C5_FaultIsolation ==
  /\ call.op \in {"sendUnicast", "sendBroadcast", "receive"} => ret.kind = "return"
  /\ call.op = "sendUnicast" /\ call.id \in neighbours[RPS] =>
       /\ ret = Ret("true")
       /\ SendsTo({call.id}, Pass(Healthy("out", middlewares), "out", call.message).value)
       /\ Len(applied) = Len(middlewares)
  /\ call.op = "sendBroadcast" =>
       /\ ret = Ret(Bool(neighbours[RPS] # {}))
       /\ SendsTo(neighbours[RPS] \cap Outbound,
                  Pass(Healthy("out", middlewares), "out", call.message).value)
       /\ Len(applied) = Len(middlewares)
  /\ call.op = "receive" =>
       /\ envelope.payload =
            Pass(Reverse(Healthy("in", middlewares)), "in", call.wire).value
       /\ Len(applied) = Len(middlewares)
       /\ Len(invoked) = Len(handlers[call.inst][call.kind])
       /\ \A i \in DOMAIN invoked : invoked[i].payload = envelope.payload

C5_Witness ==
  /\ call.op = "receive" /\ call.kind = "broadcast"
  /\ Len(middlewares) = 2
  /\ middlewares[1].middleware = "A" /\ middlewares[2].middleware = "T"
  /\ call.wire = <<"p", "a">>
  /\ Len(invoked) = 1
  /\ invoked[1].payload = <<"p">>

\* C6: sendUnicast(peerID, payload) to a peerID that is not a known neighbour
\* returns false, throws nothing, makes no transport send and leaves the
\* Connection Graph as it was; to a known peerID it makes exactly one
\* transport send, addressed to peerID, of the payload the outbound
\* middleware gives.
C6_SendUnicast ==
  [][call'.op = "sendUnicast" =>
       /\ neighbours' = neighbours
       /\ ret'.kind = "return"
       /\ IF call'.id \in neighbours[RPS]
            THEN /\ ret' = Ret("true")
                 /\ sent' = <<[to |-> call'.id,
                               payload |-> Pipeline_out(call'.message).value]>>
            ELSE /\ ret' = Ret("false")
                 /\ sent' = <<>>]_vars

C6_Witness ==
  /\ call.op = "sendUnicast"
  /\ call.id = "b-O"
  /\ neighbours[RPS] = {"a-O", "c-I"}
  /\ middlewares # <<>>
  /\ ret = Ret("false")
  /\ sent = <<>>

Range(q) == {q[i] : i \in DOMAIN q}

\* C7: sendMulticast(ids, P) returns true exactly when one of the ids is a
\* known neighbour (false for an empty or all-unknown list), and makes one
\* transport send of the post-middleware payload to each distinct known id,
\* none to an unknown id and none twice for a repeated id.
C7_SendMulticast ==
  call.op = "sendMulticast" =>
    LET ids == IF call.ids = Absent THEN <<>> ELSE call.ids[1]
        known == Range(ids) \cap neighbours[RPS]
    IN /\ ret = Ret(Bool(known # {}))
       /\ SendsTo(known, Pipeline_out(call.message).value)

C7_Witness ==
  /\ call.op = "sendMulticast"
  /\ call.ids = Given(<<"a-O", "b-O", "a-O">>)
  /\ neighbours[RPS] = {"a-O", "c-I"}
  /\ middlewares # <<>>
  /\ ret = Ret("true")
  /\ Len(sent) = 1
  /\ sent[1].to = "a-O"

\* C9: getRandomNeighbourId() returns null, and raises nothing, when the base
\* overlay has no neighbour; otherwise it returns a member of what the base
\* overlay's getNeighbours() gave it; it never changes the Connection Graph.
C9_RandomNeighbour ==
  [][call'.op = "getRandomNeighbourId" =>
       /\ neighbours' = neighbours
       /\ ret'.kind = "return"
       /\ Range(call'.peers) = neighbours[RPS]
       /\ neighbours[RPS] = {} => ret' = Ret(Null)
       /\ neighbours[RPS] # {} => ret'.value \in Range(call'.peers)]_vars

C9_Witness ==
  /\ call.op = "getRandomNeighbourId"
  /\ Len(call.peers) = 3
  /\ ret = Ret(call.peers[3])

OnName(kind) ==
  CASE kind = "unicast" -> "onUnicast"
    [] kind = "broadcast" -> "onBroadcast"
    [] kind = "streamUnicast" -> "onStreamUnicast"
    [] kind = "streamBroadcast" -> "onStreamBroadcast"

\* C10: for an inbound message of a kind on the base overlay, every callback
\* registered for that kind is invoked with (senderID, payload after the
\* inbound middleware), in the order of registration; a callback that throws
\* stops neither the callbacks after it nor a later message, and nothing is
\* raised to the transport.
C10_Handlers ==
  call.op = "receive" /\ call.inst = RPS =>
    LET regs == SelectSeq(registrations, LAMBDA r : r.on = OnName(call.kind))
    IN /\ ret.kind = "return"
       /\ invoked = [i \in DOMAIN regs |->
                       [callback |-> regs[i].callback,
                        senderID |-> call.senderID,
                        payload |-> Pipeline_in(call.wire).value]]

C10_Witness ==
  /\ call.op = "receive"
  /\ call.kind = "unicast"
  /\ call.wire = <<"p", "a">>
  /\ middlewares # <<>>
  /\ registrations = <<[on |-> "onUnicast", callback |-> "boom"],
                       [on |-> "onUnicast", callback |-> "f"]>>
  /\ invoked = <<[callback |-> "boom", senderID |-> call.senderID, payload |-> <<"p">>],
                 [callback |-> "f", senderID |-> call.senderID, payload |-> <<"p">>]>>

Expired(i) ==
  /\ i \in DOMAIN conns
  /\ conns[i].sig = "pending"
  /\ now >= conns[i].deadline

TimedOut(i) ==
  /\ i \in DOMAIN conns
  /\ conns[i].promise = "rejected"
  /\ conns[i].value = "ConnectionTimeoutError"

\* C8: every connection() call settles. Its timer runs for timeoutMs, or for
\* the configured pendingTimeout when no timeout is given; a call whose pair
\* is not Connected when the timer is due gets its promise rejected with
\* ConnectionTimeoutError instead of staying pending; no Pending attempt is
\* left once an attempt has ended, and the steps of a call that times out
\* leave the Connection Graph as it was.
C8_ConnectionSettles ==
  /\ \A i \in 1..MaxConns :
       (i \in DOMAIN conns /\ ~Settled(conns[i]))
         ~> (i \in DOMAIN conns /\ Settled(conns[i]))
  /\ \A i \in 1..MaxConns : Expired(i) ~> TimedOut(i)
  /\ [](\A i \in DOMAIN conns :
          /\ Settled(conns[i]) => conns[i].sig # "pending"
          /\ conns[i].sig \notin {"pending", "none"} => i \notin pendingLinks[conns[i].inst]
          /\ conns[i].sig = "pending" => i \in pendingLinks[conns[i].inst])
  /\ [][/\ call'.op = "connection" /\ conns'[call'.id].sig = "pending" =>
             /\ conns'[call'.id].deadline =
                  now + (IF call'.timeout = Absent THEN 60000 ELSE call'.timeout[1])
             /\ neighbours' = neighbours
        /\ call'.op = "timeout" => neighbours' = neighbours
        /\ call'.op = "catch" => neighbours' = neighbours]_vars

C8_Witness ==
  /\ Len(conns) = 2
  /\ TimedOut(1) /\ conns[1].deadline = 60000
  /\ TimedOut(2) /\ conns[2].deadline = 100
  /\ \A i \in DOMAIN pendingLinks : pendingLinks[i] = {}
  /\ \A i \in DOMAIN neighbours : neighbours[i] = {}
----------------------------------------------------------------------------
\* the name of a connection() call is not registered here, or not on the
\* facade it was given
UnknownName(c) ==
  /\ c.name # Undefined
  /\ \/ c.name \notin DOMAIN registry
     \/ c.foglet # Absent /\ c.name \notin c.foglet[1].overlays

IsConnectionCall == Len(conns') = Len(conns) + 1

\* C11: a connection(foglet, name, timeout) call whose name is not registered
\* locally, or not on the given remote facade, returns a promise (no
\* synchronous throw) that is rejected with the lookup error, makes no
\* signaling.connection call, emits no "connect" event, then or later, and
\* leaves every overlay's state unchanged.
C11_UnknownNameRejects ==
  [][/\ (IsConnectionCall /\ UnknownName(call')) =>
          /\ ret' = Ret("Promise")
          /\ conns'[call'.id].promise = "rejected"
          /\ conns'[call'.id].value = "UnknownOverlayError"
          /\ conns'[call'.id].sig = "none"
          /\ pendingLinks' = pendingLinks
          /\ connectEvents' = connectEvents
          /\ emitted' = <<>>
          /\ overlayState' = overlayState
     /\ \A i \in DOMAIN conns : conns[i].sig = "none" => conns'[i] = conns[i]
    ]_vars

\* the name is registered here but not on the remote facade, and the call
\* came back with a rejected promise, while an earlier call is still pending
C11_Witness ==
  /\ call.op = "connection"
  /\ call.foglet # Absent
  /\ call.name \in DOMAIN registry
  /\ call.name \notin call.foglet[1].overlays
  /\ conns[call.id].promise = "rejected"
  /\ \E i \in DOMAIN conns : conns[i].promise = "pending"

----------------------------------------------------------------------------
Resolved == {i \in DOMAIN conns : conns[i].promise = "resolved"}

\* the step in which the promise of call i leaves "pending" for `to`
Settles(i, to) ==
  /\ i \in DOMAIN conns
  /\ conns[i].promise = "pending"
  /\ conns'[i].promise = to

----------------------------------------------------------------------------
MessagingOps ==
  {"sendUnicast", "sendMulticast", "sendBroadcast", "streamUnicast",
   "streamBroadcast", "onUnicast", "onBroadcast", "onStreamUnicast",
   "onStreamBroadcast", "getRandomNeighbourId"}
NamedOps == {"share", "unshare", "connection"}
QueryOps == {"getArcs", "getNeighbours", "getReachableNeighbours"}

NamedInstances == {registry[n] : n \in DOMAIN registry}

\* what an overlay instance owns: signaling state, Connection Graph, handler
\* set and pending connection attempts
Owned(i) == <<signaling[i], neighbours[i], handlers[i], pendingLinks[i]>>

\* the instances a name argument selects: none when it is not registered
Selected(name) ==
  IF name = Undefined THEN {RPS}
  ELSE IF name \in DOMAIN registry THEN {registry[name]} ELSE {}

\* the step that has just been taken acts on the base overlay's channel,
\* handlers and Connection Graph
ActsOnBase ==
  /\ \A k \in DOMAIN sent' : sent'[k].to \in neighbours[RPS]
  /\ call'.op = "sendUnicast" => ret' = Ret(Bool(call'.id \in neighbours[RPS]))
  /\ call'.op = "sendBroadcast" => ret' = Ret(Bool(neighbours[RPS] # {}))
  /\ call'.op = "sendMulticast" =>
        ret' = Ret(Bool(call'.ids # Absent
                        /\ Range(call'.ids[1]) \cap neighbours[RPS] # {}))
  /\ \A k \in Kinds : call'.op = OnName(k) =>
        handlers'[RPS][k] = Append(handlers[RPS][k], call'.callback)
  /\ call'.op = "getRandomNeighbourId" =>
        IF neighbours[RPS] = {} THEN ret' = Ret(Null)
        ELSE ret'.kind = "return" /\ ret'.value \in neighbours[RPS]

\* C13: the messaging operations and getRandomNeighbourId always act on the
\* base RPS overlay and leave every named overlay's channel, handler set and
\* Connection Graph unchanged, whatever was shared or connected before;
\* share, unshare, connection, getArcs, getNeighbours and
\* getReachableNeighbours act only on the overlay their name selects.
C13_OverlayFrame ==
  [][/\ call'.op \in MessagingOps =>
          /\ registry' = registry
          /\ \A i \in NamedInstances : Owned(i)' = Owned(i)
          /\ ActsOnBase
     /\ call'.op \in NamedOps =>
          /\ registry' = registry
          /\ \A i \in Instances \ Selected(call'.name) : Owned(i)' = Owned(i)
          /\ \A i \in Selected(call'.name) :
                /\ call'.op = "share" => signaling'[i] = "Signaling"
                /\ call'.op = "unshare" => signaling'[i] = "Detached"
                /\ (call'.op = "connection" /\ ~UnknownName(call')) =>
                      /\ call'.id \in pendingLinks'[i]
                      /\ conns'[call'.id].inst = i
     /\ call'.op \in QueryOps =>
          /\ overlayState' = overlayState
          /\ Selected(call'.name) = {} => ret' = Throw("UnknownOverlayError")
          /\ \A i \in Selected(call'.name) :
                /\ ret'.kind = "return"
                /\ call'.op = "getArcs" => ret'.value = neighbours[i]
                /\ call'.op = "getNeighbours" =>
                      Range(ret'.value) = neighbours[i]
                /\ call'.op = "getReachableNeighbours" =>
                      ret'.value = {StripSuffix(x) : x \in neighbours[i] \cap Outbound}
    ]_vars

\* a named overlay was shared and knows a peer the base overlay does not:
\* sendUnicast to that peer went by the base overlay and found nobody
C13_Witness ==
  /\ call.op = "sendUnicast"
  /\ \E i \in NamedInstances :
        /\ signaling[i] = "Signaling"
        /\ call.id \in neighbours[i]
  /\ call.id \notin neighbours[RPS]
  /\ ret = Ret("false")
  /\ sent = <<>>

====
